---- MODULE Spec2Model ----
(***************************************************************************)
(* State-machine model of src/sova.py (class SimpleDeviceUI).              *)
(*                                                                         *)
(* Three kinds of thread exist in the program:                             *)
(*   - the Tk main thread, which runs the command handlers (_do_kill,      *)
(*     _output_pressed, start_pressed, stop_pressed, _on_mode_change) and  *)
(*     the callbacks deferred with after(0, ...), one at a time;           *)
(*   - the GPIO cycle thread (_cycle_worker);                              *)
(*   - the countdown thread(s) (_stage_worker).                            *)
(* The threads share the object's fields without any lock except           *)
(* _gpio_mode_lock, so every handler is modelled statement by statement:   *)
(* main_pc is the main thread's position inside the handler it is running, *)
(* and one step of the model is one source statement that reads or writes  *)
(* a field another thread uses.  The fields current_stage, stage_total,    *)
(* manual_state, current_mode and mode_var are used by the main thread     *)
(* alone (the countdown thread reads the first two only to word its        *)
(* progress report), and `running` is read by the main thread alone and    *)
(* only ever cleared by the others: a handler's write of one of them is    *)
(* folded into the step before or after it.                                *)
(*                                                                         *)
(* Statements that only touch widgets (labels, button colours and enabled  *)
(* states, progress bar) and print() are left out, and so is _on_paused,   *)
(* which does nothing else.  The handlers are the operations of the        *)
(* controller: a command may be issued whenever the main thread is idle.   *)
(*                                                                         *)
(* Time is counted in whole seconds for the countdown (dt, the elapsed     *)
(* wall-clock time between two ticks, is any value of DtChoices) and in    *)
(* poll steps of 0.1 s for the cycle thread.  A countdown tick (line 547)  *)
(* reads and writes stage_remaining in one step.                           *)
(*                                                                         *)
(* The product of the two halves of the program is too large to explore:   *)
(* SpecOutput is the output controller (KILL, OUTPUT, cycle thread),       *)
(* SpecStage the stage sequencer (KILL, START, STOP, mode selector,        *)
(* countdown threads, completion callback), SpecCommands every handler     *)
(* without the cycle thread.  The halves share only the killed flag.       *)
(***************************************************************************)
EXTENDS Integers, Sequences, FiniteSets, TLC

(* ---------------- program constants (src/sova.py:58-65) ---------------- *)
AUTO_TOTAL == 30
MANUAL_FOAM == 5
MANUAL_INFLATE == 20
MANUAL_STABILIZE == 20 * 60
GPIO_HIGH_SEC == 3
GPIO_LOW_SEC == 5
\* 1 / step, step = 0.1 s: the number of poll steps per second of a phase
PollsPerSec == 10
\* int(GPIO_LOW_SEC / 0.1) and int(GPIO_HIGH_SEC / 0.1) (lines 418, 402)
LowPolls == GPIO_LOW_SEC * PollsPerSec
HighPolls == GPIO_HIGH_SEC * PollsPerSec
\* int(total / step), total = GPIO_LOW_SEC: the initial LOW period (371-373)
InitialPolls == GPIO_LOW_SEC * PollsPerSec

(* ---------------- bounds of the model ---------------- *)
\* OUTPUT presses over one behaviour
MaxToggles == 4
\* KILL presses over one behaviour
MaxKills == 2
\* cycle threads that can be alive at once (the code allows one)
MaxCycleThreads == 2
\* countdown threads that can be alive at once
MaxWorkers == 2
\* deferred _on_stage_complete callbacks waiting in the Tk queue
MaxPending == 1
\* elapsed seconds between two countdown ticks: an ordinary tick, explored
\* in the last FineBelow seconds of a countdown, and a stall of the thread
FineDt == 4
FineBelow == 30
Stall == 400

Stages == {"none", "auto", "foam", "inflate", "stabilize"}
ThreadIds == 1..MaxCycleThreads
WorkerPcs == {"loop", "chk_kill", "chk_pause", "p_running", "p_paused",
              "p_flag", "tick", "x_running", "x_paused", "x_after"}

VARIABLES
    \* --- fields of SimpleDeviceUI (src/sova.py:76-107) ---
    killed, running, paused, pause_flag,
    current_stage, stage_total, stage_remaining,
    manual_state, current_mode, mode_var,
    gpio_mode,            \* _gpio_mode: "idle" | "steady_high" | "cycle"
    gpio_mode_lock,       \* _gpio_mode_lock: "free" or its holder
    led,                  \* the actuator: TRUE is HIGH
    gpio_cycle_thread,    \* _gpio_cycle_thread: 0 (None) or a thread id
    gpio_cycle_stop_evt,  \* _gpio_cycle_stop_evt.is_set()
    \* --- threads ---
    main_pc,              \* position of the Tk main thread
    main_arg,             \* what the running handler starts: a stage, "resume"
    cyc,                  \* cycle threads: id -> [pc, i, last, dwell]
    worker,               \* countdown threads: position -> how many are there
    after_queue,          \* pending after(0, _on_stage_complete) callbacks
    \* --- history (read by no action, except for the bounds on presses) ---
    toggles,              \* OUTPUT presses so far
    kills,                \* KILL presses so far
    hist                  \* record of facts about the past, see NoPause

outVars == <<gpio_mode, gpio_mode_lock, led, gpio_cycle_thread,
             gpio_cycle_stop_evt, cyc, toggles, kills>>
stageVars == <<running, paused, pause_flag, current_stage, stage_total,
               stage_remaining, manual_state, current_mode, mode_var,
               worker, after_queue>>
vars == <<killed, main_pc, main_arg, hist, outVars, stageVars>>

\* pc: position; i: the running for-loop's index; history fields: last (the
\* thread's last actuator write) and dwell (sleeps completed in the initial LOW)
DeadThread == [pc |-> "dead", i |-> 0, last |-> "none", dwell |-> 0]

\* history: the stage and its remaining time when a countdown thread set
\* paused (line 540), kept until paused is cleared and START has returned
NoPause == [pause_stage |-> "none", pause_rem |-> -1]

Init ==
    /\ killed = FALSE /\ running = FALSE /\ paused = FALSE
    /\ pause_flag = FALSE
    /\ current_stage = "none" /\ stage_total = 0 /\ stage_remaining = 0
    /\ manual_state = "idle"
    /\ current_mode = "Manual" /\ mode_var = "Manual"
    /\ gpio_mode = "idle" /\ gpio_mode_lock = "free"
    /\ led = FALSE
    /\ gpio_cycle_thread = 0 /\ gpio_cycle_stop_evt = FALSE
    /\ main_pc = "ready" /\ main_arg = "none"
    /\ cyc = [t \in ThreadIds |-> DeadThread]
    /\ worker = [p \in WorkerPcs |-> 0]
    /\ after_queue = <<>>
    /\ toggles = 0
    /\ kills = 0
    /\ hist = NoPause

(***************************************************************************)
(* Helpers                                                                 *)
(***************************************************************************)
Max(a, b) == IF a >= b THEN a ELSE b

\* threading.Thread.is_alive() of a cycle thread
CycleAlive(t) == cyc[t].pc # "dead"
AliveCycleThreads == {t \in ThreadIds : CycleAlive(t)}

\* a _start_gpio_cycle that never finds a thread alive
CycleThreadRunningNever == FALSE

\* `self._gpio_cycle_thread and self._gpio_cycle_thread.is_alive()` (line 357)
CycleThreadRunning ==
    gpio_cycle_thread # 0 /\ CycleAlive(gpio_cycle_thread)

\* the slot a newly created Thread object takes
FreeThreadIds == {t \in ThreadIds : ~CycleAlive(t)}
NewThreadId == CHOOSE t \in FreeThreadIds : \A u \in FreeThreadIds : t <= u

\* a stop test that looks at the event alone
CycleStopRequestedEvt == gpio_cycle_stop_evt

\* `self._gpio_cycle_stop_evt.is_set() or self.killed` (lines 374, 381, 403,
\* 409, 419; negated in the while test of line 390)
CycleStopRequested == gpio_cycle_stop_evt \/ killed

\* an OUTPUT button that never looks at the killed flag
OutputIgnoredNever == FALSE

\* `if self.killed: return` of _output_pressed (line 315)
OutputIgnored == killed

\* a toggle that switches the output off again after cycling
NextGpioModeOff(m) ==
    CASE m = "idle" -> "steady_high"
      [] m = "steady_high" -> "cycle"
      [] m = "cycle" -> "idle"

\* the mode _output_pressed moves to from mode m (lines 321-344)
NextGpioMode(m) ==
    CASE m = "idle" -> "steady_high"
      [] m = "steady_high" -> "cycle"
      [] m = "cycle" -> "steady_high"

(***************************************************************************)
(* KILL: _do_kill (lines 279-305), on the main thread                      *)
(***************************************************************************)
\* a KILL button that never looks at the killed flag
KillIgnoredNever == FALSE

\* `if self.killed: return` of _do_kill (lines 280-281)
KillIgnored == killed

\* lines 280-284: killed is set, and running is cleared
KillBegin ==
    /\ main_pc = "ready"
    /\ ~KillIgnored
    /\ kills < MaxKills
    /\ kills' = kills + 1
    /\ killed' = TRUE
    /\ running' = FALSE
    /\ main_pc' = "k_paused"
    /\ UNCHANGED <<main_arg, hist, gpio_mode, gpio_mode_lock, led,
                   gpio_cycle_thread, gpio_cycle_stop_evt, cyc, toggles,
                   paused, pause_flag, current_stage,
                   stage_total, stage_remaining, manual_state, current_mode,
                   mode_var, worker, after_queue>>

\* a second kill: line 280 returns at once
KillAgain ==
    /\ main_pc = "ready"
    /\ KillIgnored
    /\ kills < MaxKills
    /\ kills' = kills + 1
    /\ UNCHANGED <<killed, main_pc, main_arg, hist, stageVars, gpio_mode,
                   gpio_mode_lock, led, gpio_cycle_thread,
                   gpio_cycle_stop_evt, cyc, toggles>>

\* line 285
KillPaused ==
    /\ main_pc = "k_paused"
    /\ paused' = FALSE
    /\ hist' = NoPause
    /\ main_pc' = "k_flag"
    /\ UNCHANGED <<killed, main_arg, outVars, running, pause_flag, current_stage,
                   stage_total, stage_remaining, manual_state, current_mode,
                   mode_var, worker, after_queue>>

\* line 286
KillPauseFlag ==
    /\ main_pc = "k_flag"
    /\ pause_flag' = FALSE
    /\ main_pc' = "k_stop"
    /\ UNCHANGED <<killed, main_arg, hist, outVars, running, paused, current_stage,
                   stage_total, stage_remaining, manual_state, current_mode,
                   mode_var, worker, after_queue>>

\* line 289 -> _stop_gpio_cycle, line 445: the event is set (no lock taken)
KillStopEvt ==
    /\ main_pc = "k_stop"
    /\ gpio_cycle_stop_evt' = TRUE
    /\ main_pc' = "k_off1"
    /\ UNCHANGED <<killed, main_arg, hist, stageVars, gpio_mode, gpio_mode_lock, led,
                   gpio_cycle_thread, cyc, toggles, kills>>

\* _stop_gpio_cycle, line 447: led.off()
KillOff1 ==
    /\ main_pc = "k_off1"
    /\ led' = FALSE
    /\ main_pc' = "k_off2"
    /\ UNCHANGED <<killed, main_arg, hist, stageVars, gpio_mode, gpio_mode_lock,
                   gpio_cycle_thread, gpio_cycle_stop_evt, cyc, toggles, kills>>

\* line 291: led.off(); the rest of the handler only updates widgets
KillOff2 ==
    /\ main_pc = "k_off2"
    /\ led' = FALSE
    /\ main_pc' = "ready"
    /\ UNCHANGED <<killed, main_arg, hist, stageVars, gpio_mode, gpio_mode_lock,
                   gpio_cycle_thread, gpio_cycle_stop_evt, cyc, toggles, kills>>

DoKill ==
    \/ KillBegin \/ KillAgain \/ KillPaused \/ KillPauseFlag
    \/ KillStopEvt \/ KillOff1 \/ KillOff2

\* the handler's position is inside _do_kill
InKill == main_pc \in {"k_paused", "k_flag", "k_stop",
                       "k_off1", "k_off2"}

(***************************************************************************)
(* Window close: _on_close (lines 640-651), on the main thread             *)
(***************************************************************************)
\* line 643 -> _stop_gpio_cycle, line 445: the event is set
CloseStopEvt ==
    /\ main_pc = "ready"
    /\ gpio_cycle_stop_evt' = TRUE
    /\ main_pc' = "x_off1"
    /\ UNCHANGED <<killed, main_arg, hist, stageVars, gpio_mode,
                   gpio_mode_lock, led, gpio_cycle_thread, cyc, toggles,
                   kills>>

\* _stop_gpio_cycle, line 447: led.off()
CloseOff1 ==
    /\ main_pc = "x_off1"
    /\ led' = FALSE
    /\ main_pc' = "x_off2"
    /\ UNCHANGED <<killed, main_arg, hist, stageVars, gpio_mode,
                   gpio_mode_lock, gpio_cycle_thread, gpio_cycle_stop_evt,
                   cyc, toggles, kills>>

\* line 644: led.off()
CloseOff2 ==
    /\ main_pc = "x_off2"
    /\ led' = FALSE
    /\ main_pc' = "x_exit"
    /\ UNCHANGED <<killed, main_arg, hist, stageVars, gpio_mode,
                   gpio_mode_lock, gpio_cycle_thread, gpio_cycle_stop_evt,
                   cyc, toggles, kills>>

\* lines 647-649: self.destroy(); sys.exit(0).  The process terminates and
\* its daemon threads stop wherever they are.
CloseExit ==
    /\ main_pc = "x_exit"
    /\ main_pc' = "exited"
    /\ UNCHANGED <<killed, main_arg, hist, stageVars, outVars>>

OnClose == CloseStopEvt \/ CloseOff1 \/ CloseOff2 \/ CloseExit

\* the handler's position is inside _on_close
InClose == main_pc \in {"x_off1", "x_off2", "x_exit"}

\* the process has terminated
Exited == main_pc = "exited"

(***************************************************************************)
(* OUTPUT button: _output_pressed (lines 308-344), _set_steady_high        *)
(* (346-352), _start_gpio_cycle (355-360, 439-441), _stop_gpio_cycle       *)
(* (443-449), on the main thread                                           *)
(***************************************************************************)
\* line 315: ignored when killed; otherwise go on to take the lock
OutputPressed ==
    /\ main_pc = "ready"
    /\ toggles < MaxToggles
    /\ toggles' = toggles + 1
    /\ main_pc' = IF OutputIgnored THEN "ready" ELSE "t_lock"
    /\ UNCHANGED <<killed, main_arg, hist, stageVars, gpio_mode, gpio_mode_lock, led,
                   gpio_cycle_thread, gpio_cycle_stop_evt, cyc, kills>>

\* lines 318-319: `with self._gpio_mode_lock: mode = self._gpio_mode`
OutputLock ==
    /\ main_pc = "t_lock"
    /\ gpio_mode_lock = "free"
    /\ gpio_mode_lock' = "main"
    /\ main_pc' = CASE gpio_mode = "idle" -> "h_stop"
                    [] gpio_mode = "steady_high" -> "s_start"
                    [] gpio_mode = "cycle" -> "c_stop"
    /\ UNCHANGED <<killed, main_arg, hist, stageVars, gpio_mode, led, gpio_cycle_thread,
                   gpio_cycle_stop_evt, cyc, toggles, kills>>

\* mode 'cycle', line 339 -> _stop_gpio_cycle line 445
OutputCycleStopEvt ==
    /\ main_pc = "c_stop"
    /\ gpio_cycle_stop_evt' = TRUE
    /\ main_pc' = "c_off"
    /\ UNCHANGED <<killed, main_arg, hist, stageVars, gpio_mode, gpio_mode_lock, led,
                   gpio_cycle_thread, cyc, toggles, kills>>

\* mode 'cycle', _stop_gpio_cycle line 447; line 340 follows
OutputCycleOff ==
    /\ main_pc = "c_off"
    /\ led' = FALSE
    /\ main_pc' = "h_stop"
    /\ UNCHANGED <<killed, main_arg, hist, stageVars, gpio_mode, gpio_mode_lock,
                   gpio_cycle_thread, gpio_cycle_stop_evt, cyc, toggles, kills>>

\* _set_steady_high line 348 -> _stop_gpio_cycle line 445
SteadyStopEvt ==
    /\ main_pc = "h_stop"
    /\ gpio_cycle_stop_evt' = TRUE
    /\ main_pc' = "h_off"
    /\ UNCHANGED <<killed, main_arg, hist, stageVars, gpio_mode, gpio_mode_lock, led,
                   gpio_cycle_thread, cyc, toggles, kills>>

\* _stop_gpio_cycle line 447
SteadyOff ==
    /\ main_pc = "h_off"
    /\ led' = FALSE
    /\ main_pc' = "h_on"
    /\ UNCHANGED <<killed, main_arg, hist, stageVars, gpio_mode, gpio_mode_lock,
                   gpio_cycle_thread, gpio_cycle_stop_evt, cyc, toggles, kills>>

\* _set_steady_high line 350: led.on()
SteadyOn ==
    /\ main_pc = "h_on"
    /\ led' = TRUE
    /\ main_pc' = "t_mode"
    /\ UNCHANGED <<killed, main_arg, hist, stageVars, gpio_mode, gpio_mode_lock,
                   gpio_cycle_thread, gpio_cycle_stop_evt, cyc, toggles, kills>>

\* _start_gpio_cycle(start_with_low=True), called at line 331: nothing when
\* the last thread is still alive (357-359); otherwise the event is cleared
\* (360) and a new thread is created and started (439-441)
StartGpioCycle ==
    IF CycleThreadRunning
      THEN UNCHANGED <<gpio_cycle_stop_evt, gpio_cycle_thread, cyc>>
      ELSE /\ gpio_cycle_stop_evt' = FALSE
           /\ gpio_cycle_thread' = NewThreadId
           /\ cyc' = [cyc EXCEPT ![NewThreadId] =
                         [pc |-> "init_off", i |-> 0, last |-> "none",
                          dwell |-> 0]]

OutputStartCycle ==
    /\ main_pc = "s_start"
    /\ FreeThreadIds # {}
    /\ StartGpioCycle
    /\ main_pc' = "t_mode"
    /\ UNCHANGED <<killed, main_arg, hist, stageVars, gpio_mode, gpio_mode_lock, led,
                   toggles, kills>>

\* lines 324 / 332 / 341: the new mode is stored, then the `with` block is
\* left and the lock released
OutputSetMode ==
    /\ main_pc = "t_mode"
    /\ gpio_mode' = NextGpioMode(gpio_mode)
    /\ gpio_mode_lock' = "free"
    /\ main_pc' = "ready"
    /\ UNCHANGED <<killed, main_arg, hist, stageVars, led, gpio_cycle_thread,
                   gpio_cycle_stop_evt, cyc, toggles, kills>>

OutputButton ==
    \/ OutputPressed \/ OutputLock \/ OutputCycleStopEvt \/ OutputCycleOff
    \/ SteadyStopEvt \/ SteadyOff \/ SteadyOn \/ OutputStartCycle
    \/ OutputSetMode

InOutput == main_pc \in {"t_lock", "c_stop", "c_off", "h_stop", "h_off",
                         "h_on", "s_start", "t_mode"}

(***************************************************************************)
(* The cycle thread: _cycle_worker (lines 362-437)                         *)
(***************************************************************************)
\* what a step of the cycle thread leaves alone; a daemon thread of a
\* terminated process takes no step
CycleFrame ==
    /\ ~Exited
    /\ UNCHANGED <<killed, main_pc, main_arg, hist, stageVars, gpio_mode,
                   gpio_mode_lock, gpio_cycle_thread,
                   gpio_cycle_stop_evt, toggles, kills>>

\* the thread moves to position p with loop index n
CycleGoto(t, p, n) == cyc' = [cyc EXCEPT ![t].pc = p, ![t].i = n]

\* `with self._gpio_mode_lock: if self._gpio_mode != 'cycle': break`
\* (lines 377-379, 392-394, 405-407, 421-423): the lock is taken for the test
ModeLeftCycle == gpio_mode # "cycle"

\* lines 365-372: led.off(), the initial LOW period begins
CycleInitOff(t) ==
    /\ cyc[t].pc = "init_off"
    /\ led' = FALSE
    /\ cyc' = [cyc EXCEPT ![t].pc = "il_chk", ![t].i = 0, ![t].last = "LOW"]
    /\ CycleFrame

\* line 374, initial LOW loop: break when stopped or killed
CycleInitCheck(t) ==
    /\ cyc[t].pc = "il_chk"
    /\ CycleGoto(t, IF CycleStopRequested THEN "il_after" ELSE "il_mode",
                 cyc[t].i)
    /\ UNCHANGED led /\ CycleFrame

\* lines 377-380: break when the mode changed, else sleep(step); the loop
\* ends after InitialPolls rounds
CycleInitPoll(t) ==
    /\ cyc[t].pc = "il_mode"
    /\ gpio_mode_lock = "free"
    /\ IF ModeLeftCycle
         THEN CycleGoto(t, "il_after", cyc[t].i)
         ELSE cyc' = [cyc EXCEPT
                  ![t].pc = IF cyc[t].i + 1 >= InitialPolls THEN "il_after"
                            ELSE "il_chk",
                  ![t].i = cyc[t].i + 1,
                  ![t].dwell = cyc[t].i + 1]
    /\ UNCHANGED led /\ CycleFrame

\* line 381: aborted during the initial LOW?
CycleInitAfter(t) ==
    /\ cyc[t].pc = "il_after"
    /\ CycleGoto(t, IF CycleStopRequested THEN "il_abort" ELSE "w_test", 0)
    /\ UNCHANGED led /\ CycleFrame

\* lines 382-387: led.off(); return
CycleInitAbort(t) ==
    /\ cyc[t].pc = "il_abort"
    /\ led' = FALSE
    /\ cyc' = [cyc EXCEPT ![t].pc = "end", ![t].i = 0, ![t].last = "LOW"]
    /\ CycleFrame

\* line 390: while not stop_evt.is_set() and not killed
CycleWhileTest(t) ==
    /\ cyc[t].pc = "w_test"
    /\ CycleGoto(t, IF CycleStopRequested THEN "exit_off" ELSE "w_mode", 0)
    /\ UNCHANGED led /\ CycleFrame

\* lines 392-394: still in 'cycle' mode?
CycleWhileMode(t) ==
    /\ cyc[t].pc = "w_mode"
    /\ gpio_mode_lock = "free"
    /\ CycleGoto(t, IF ModeLeftCycle THEN "exit_off" ELSE "high_on", 0)
    /\ UNCHANGED led /\ CycleFrame

\* lines 397-401: led.on()
CycleHighOn(t) ==
    /\ cyc[t].pc = "high_on"
    /\ led' = TRUE
    /\ cyc' = [cyc EXCEPT ![t].pc = "hl_chk", ![t].i = 0, ![t].last = "HIGH"]
    /\ CycleFrame

\* line 403, HIGH loop
CycleHighCheck(t) ==
    /\ cyc[t].pc = "hl_chk"
    /\ CycleGoto(t, IF CycleStopRequested THEN "h_after" ELSE "hl_mode",
                 cyc[t].i)
    /\ UNCHANGED led /\ CycleFrame

\* lines 405-408
CycleHighPoll(t) ==
    /\ cyc[t].pc = "hl_mode"
    /\ gpio_mode_lock = "free"
    /\ IF ModeLeftCycle
         THEN CycleGoto(t, "h_after", cyc[t].i)
         ELSE CycleGoto(t, IF cyc[t].i + 1 >= HighPolls THEN "h_after"
                           ELSE "hl_chk", cyc[t].i + 1)
    /\ UNCHANGED led /\ CycleFrame

\* lines 409-410 with `return` in place of `break`
CycleHighAfterReturn(t) ==
    /\ cyc[t].pc = "h_after"
    /\ CycleGoto(t, IF CycleStopRequested THEN "end" ELSE "low_off", 0)
    /\ UNCHANGED led /\ CycleFrame

\* lines 409-410: break out of the while loop when stopped or killed
CycleHighAfter(t) ==
    /\ cyc[t].pc = "h_after"
    /\ CycleGoto(t, IF CycleStopRequested THEN "exit_off" ELSE "low_off", 0)
    /\ UNCHANGED led /\ CycleFrame

\* lines 413-417: led.off()
CycleLowOff(t) ==
    /\ cyc[t].pc = "low_off"
    /\ led' = FALSE
    /\ cyc' = [cyc EXCEPT ![t].pc = "ll_chk", ![t].i = 0, ![t].last = "LOW"]
    /\ CycleFrame

\* line 419, LOW loop
CycleLowCheck(t) ==
    /\ cyc[t].pc = "ll_chk"
    /\ CycleGoto(t, IF CycleStopRequested THEN "w_test" ELSE "ll_mode",
                 IF CycleStopRequested THEN 0 ELSE cyc[t].i)
    /\ UNCHANGED led /\ CycleFrame

\* lines 421-424
CycleLowPoll(t) ==
    /\ cyc[t].pc = "ll_mode"
    /\ gpio_mode_lock = "free"
    /\ IF ModeLeftCycle \/ cyc[t].i + 1 >= LowPolls
         THEN CycleGoto(t, "w_test", 0)
         ELSE CycleGoto(t, "ll_chk", cyc[t].i + 1)
    /\ UNCHANGED led /\ CycleFrame

\* lines 426-431: `ensure LOW before exit`
CycleExitOff(t) ==
    /\ cyc[t].pc = "exit_off"
    /\ led' = FALSE
    /\ cyc' = [cyc EXCEPT ![t].pc = "end", ![t].i = 0, ![t].last = "LOW"]
    /\ CycleFrame

\* _cycle_worker returns (after line 387 or 431) and the thread ends: only
\* from here on is is_alive() false
CycleReturn(t) ==
    /\ cyc[t].pc = "end"
    /\ CycleGoto(t, "dead", 0)
    /\ UNCHANGED led /\ CycleFrame

CycleWorker ==
    \E t \in ThreadIds :
        \/ CycleInitOff(t) \/ CycleInitCheck(t) \/ CycleInitPoll(t)
        \/ CycleInitAfter(t) \/ CycleInitAbort(t) \/ CycleWhileTest(t)
        \/ CycleWhileMode(t) \/ CycleHighOn(t) \/ CycleHighCheck(t)
        \/ CycleHighPoll(t) \/ CycleHighAfter(t) \/ CycleLowOff(t)
        \/ CycleLowCheck(t) \/ CycleLowPoll(t) \/ CycleExitOff(t)
        \/ CycleReturn(t)

(***************************************************************************)
(* The output controller alone: OUTPUT button, KILL and the cycle thread   *)
(***************************************************************************)
NextOutput == DoKill \/ OnClose \/ OutputButton \/ CycleWorker

SpecOutput == Init /\ [][NextOutput]_vars

(***************************************************************************)
(* Countdown threads: bookkeeping                                          *)
(***************************************************************************)
AliveWorkers ==
    worker["loop"] + worker["chk_kill"] + worker["chk_pause"]
    + worker["p_running"] + worker["p_paused"] + worker["p_flag"]
    + worker["tick"] + worker["x_running"] + worker["x_paused"]
    + worker["x_after"]

\* one thread at position p moves on to position q (a daemon thread of a
\* terminated process takes no step)
WorkerMove(p, q) ==
    /\ ~Exited
    /\ worker' = [worker EXCEPT ![p] = @ - 1, ![q] = @ + 1]
\* the thread at position p returns
WorkerEnd(p) ==
    /\ ~Exited
    /\ worker' = [worker EXCEPT ![p] = @ - 1]
\* threading.Thread(target=self._stage_worker).start() (lines 528-530)
WorkerSpawn == worker' = [worker EXCEPT !["loop"] = @ + 1]

\* the total a stage starts with (lines 485, 499, 512, 613)
StageDuration(stage) ==
    CASE stage = "auto" -> AUTO_TOTAL
      [] stage = "foam" -> MANUAL_FOAM
      [] stage = "inflate" -> MANUAL_INFLATE
      [] stage = "stabilize" -> MANUAL_STABILIZE

\* dt = now - last_time (lines 544-546), in whole seconds: 0 (the first
\* tick follows line 533 at once), an ordinary tick or a stall
DtChoices(remaining) ==
    {0, Stall} \cup {d \in {FineDt} : remaining <= FineBelow}

\* frac of line 548, in thousandths (total = 0 gives 1.0)
Fraction(total, remaining) ==
    IF total > 0 THEN ((total - remaining) * 1000) \div total ELSE 1000

(***************************************************************************)
(* START: start_pressed (452-469), _start_auto_new (483-494),              *)
(* _start_manual_flow (496-522), _start_worker_for_current_stage (524-530) *)
(***************************************************************************)
\* `if self.killed: return` of start_pressed (line 453)
StartIgnored == killed

\* line 456: a paused stage is resumed
StartResumes == paused /\ current_stage # "none"

\* what start_pressed goes on to do: "ignore", "resume", or the stage
\* it starts anew (lines 453-469, 497, 510)
StartDecision ==
    CASE StartIgnored -> "ignore"
      [] ~StartIgnored /\ StartResumes -> "resume"
      [] ~StartIgnored /\ ~StartResumes /\ mode_var = "Automatic" ->
            IF running THEN "ignore" ELSE "auto"
      [] OTHER ->
            IF manual_state = "idle" THEN "foam"
            ELSE IF manual_state = "foam_done" THEN "inflate"
            ELSE "ignore"

StartPressed ==
    /\ main_pc = "ready"
    /\ StartDecision # "ignore" => AliveWorkers < MaxWorkers
    /\ main_pc' = CASE StartDecision = "ignore" -> "ready"
                    [] StartDecision = "resume" -> "r_paused"
                    [] OTHER -> "ns_stage"
    /\ main_arg' = IF StartDecision = "ignore" THEN "none" ELSE StartDecision
    /\ UNCHANGED <<killed, hist, outVars, running, paused, pause_flag,
                 current_stage, stage_total, stage_remaining,
                 manual_state, current_mode, mode_var, worker,
                 after_queue>>

\* line 457
ResumePaused ==
    /\ main_pc = "r_paused"
    /\ paused' = FALSE
    /\ main_pc' = "r_flag"
    /\ UNCHANGED <<killed, main_arg, hist, outVars, running, pause_flag,
                 current_stage, stage_total, stage_remaining,
                 manual_state, current_mode, mode_var, worker,
                 after_queue>>

\* line 458; line 461 calls _start_worker_for_current_stage
ResumePauseFlag ==
    /\ main_pc = "r_flag"
    /\ pause_flag' = FALSE
    /\ main_pc' = "sw_running"
    /\ UNCHANGED <<killed, main_arg, hist, outVars, running, paused,
                 current_stage, stage_total, stage_remaining,
                 manual_state, current_mode, mode_var, worker,
                 after_queue>>

\* lines 484-486 / 498-500 / 511-513 / 612-614: self.current_stage = ...;
\* self.stage_total = ...; self.stage_remaining = ...; then
\* _start_worker_for_current_stage is called (494 / 508 / 521 / 622).
\* One step: a countdown thread reads neither current_stage nor
\* stage_total here, and what it writes to stage_remaining between these
\* lines is overwritten by the last of them.
NewStage ==
    /\ main_pc = "ns_stage"
    /\ current_stage' = main_arg
    /\ stage_total' = StageDuration(main_arg)
    /\ stage_remaining' = StageDuration(main_arg)
    /\ main_pc' = "sw_running"
    /\ UNCHANGED <<killed, main_arg, hist, outVars, running, paused,
                 pause_flag, manual_state, current_mode, mode_var, worker,
                 after_queue>>

\* line 525
StartWorkerRunning ==
    /\ main_pc = "sw_running"
    /\ running' = TRUE
    /\ main_pc' = "sw_paused"
    /\ UNCHANGED <<killed, main_arg, hist, outVars, paused, pause_flag,
                 current_stage, stage_total, stage_remaining,
                 manual_state, current_mode, mode_var, worker,
                 after_queue>>

\* line 526
StartWorkerPaused ==
    /\ main_pc = "sw_paused"
    /\ paused' = FALSE
    /\ main_pc' = "sw_thread"
    /\ UNCHANGED <<killed, main_arg, hist, outVars, running, pause_flag,
                 current_stage, stage_total, stage_remaining,
                 manual_state, current_mode, mode_var, worker,
                 after_queue>>

\* lines 528-530
StartWorkerThread ==
    /\ main_pc = "sw_thread"
    /\ WorkerSpawn
    /\ main_pc' = "ready"
    /\ main_arg' = "none"
    /\ hist' = IF paused THEN hist ELSE NoPause
    /\ UNCHANGED <<killed, outVars, running, paused, pause_flag,
                   current_stage, stage_total, stage_remaining, manual_state,
                   current_mode, mode_var, after_queue>>

StartButton ==
    \/ StartPressed \/ ResumePaused \/ ResumePauseFlag \/ NewStage
    \/ StartWorkerRunning
    \/ StartWorkerPaused \/ StartWorkerThread

(***************************************************************************)
(* STOP: stop_pressed (471-480)                                            *)
(***************************************************************************)
\* lines 472-474: the request is accepted
StopAccepted == ~killed /\ running /\ current_stage # "none"

StopPressed ==
    /\ main_pc = "ready"
    /\ pause_flag' = IF StopAccepted THEN TRUE ELSE pause_flag
    /\ UNCHANGED <<killed, main_pc, main_arg, hist, outVars, running, paused,
                 current_stage, stage_total, stage_remaining,
                 manual_state, current_mode, mode_var, worker,
                 after_queue>>

(***************************************************************************)
(* Mode selector: _on_mode_change (258-276)                                *)
(***************************************************************************)
\* line 259
ModeChangeRejected == running \/ paused

\* the segmented button stores the clicked value in mode_var and calls its
\* command with it (lines 134-142).  Lines 259-265: the change is rejected
\* and the selector reverts, or current_mode, manual_state, current_stage
\* and stage_total are reset
ModeChange(value) ==
    /\ main_pc = "ready"
    /\ IF ModeChangeRejected
         THEN /\ mode_var' = current_mode
              /\ UNCHANGED <<main_pc, current_mode, manual_state,
                             current_stage, stage_total>>
         ELSE /\ mode_var' = value
              /\ current_mode' = value
              /\ manual_state' = "idle"
              /\ current_stage' = "none"
              /\ stage_total' = 0
              /\ main_pc' = "m_rem"
    /\ UNCHANGED <<killed, main_arg, hist, outVars, running, paused,
                   pause_flag, stage_remaining, worker, after_queue>>

\* line 266
ModeChangeRemaining ==
    /\ main_pc = "m_rem"
    /\ stage_remaining' = 0
    /\ main_pc' = "ready"
    /\ UNCHANGED <<killed, main_arg, hist, outVars, running, paused,
                   pause_flag, current_stage, stage_total, manual_state,
                   current_mode, mode_var, worker, after_queue>>

OnModeChange ==
    \/ \E value \in {"Automatic", "Manual"} : ModeChange(value)
    \/ ModeChangeRemaining

(***************************************************************************)
(* The countdown thread: _stage_worker (532-576)                           *)
(***************************************************************************)
\* line 534: while self.stage_remaining > 0
WorkerLoop ==
    /\ worker["loop"] > 0
    /\ WorkerMove("loop", IF stage_remaining > 0 THEN "chk_kill"
                          ELSE "x_running")
    /\ UNCHANGED <<killed, main_pc, main_arg, hist, outVars, running, paused,
                 pause_flag, current_stage, stage_total,
                 stage_remaining, manual_state, current_mode,
                 mode_var, after_queue>>

\* lines 535-537
WorkerCheckKill ==
    /\ worker["chk_kill"] > 0
    /\ IF killed
         THEN running' = FALSE /\ WorkerEnd("chk_kill")
         ELSE UNCHANGED running /\ WorkerMove("chk_kill", "chk_pause")
    /\ UNCHANGED <<killed, main_pc, main_arg, hist, outVars, paused,
                 pause_flag, current_stage, stage_total,
                 stage_remaining, manual_state, current_mode,
                 mode_var, after_queue>>

\* line 538
WorkerCheckPause ==
    /\ worker["chk_pause"] > 0
    /\ WorkerMove("chk_pause", IF pause_flag THEN "p_running" ELSE "tick")
    /\ UNCHANGED <<killed, main_pc, main_arg, hist, outVars, running, paused,
                 pause_flag, current_stage, stage_total,
                 stage_remaining, manual_state, current_mode,
                 mode_var, after_queue>>

\* line 539
WorkerPauseRunning ==
    /\ worker["p_running"] > 0
    /\ running' = FALSE
    /\ WorkerMove("p_running", "p_paused")
    /\ UNCHANGED <<killed, main_pc, main_arg, hist, outVars, paused,
                 pause_flag, current_stage, stage_total,
                 stage_remaining, manual_state, current_mode,
                 mode_var, after_queue>>

\* line 540
WorkerPausePaused ==
    /\ worker["p_paused"] > 0
    /\ paused' = TRUE
    /\ hist' = [pause_stage |-> current_stage, pause_rem |-> stage_remaining]
    /\ WorkerMove("p_paused", "p_flag")
    /\ UNCHANGED <<killed, main_pc, main_arg, outVars, running, pause_flag,
                 current_stage, stage_total, stage_remaining,
                 manual_state, current_mode, mode_var, after_queue>>

\* lines 541-543 (_on_paused, deferred at 542, only updates widgets)
WorkerPauseFlag ==
    /\ worker["p_flag"] > 0
    /\ pause_flag' = FALSE
    /\ WorkerEnd("p_flag")
    /\ UNCHANGED <<killed, main_pc, main_arg, hist, outVars, running, paused,
                 current_stage, stage_total, stage_remaining,
                 manual_state, current_mode, mode_var, after_queue>>

\* lines 544-573: the remaining time is decremented by the elapsed time;
\* the rest reports progress, then time.sleep(0.1)
WorkerTick(dt) ==
    /\ worker["tick"] > 0
    /\ stage_remaining' = Max(0, stage_remaining - dt)
    /\ WorkerMove("tick", "loop")
    /\ UNCHANGED <<killed, main_pc, main_arg, hist, outVars, running, paused,
                 pause_flag, current_stage, stage_total, manual_state,
                 current_mode, mode_var, after_queue>>

\* line 574
WorkerExitRunning ==
    /\ worker["x_running"] > 0
    /\ running' = FALSE
    /\ WorkerMove("x_running", "x_paused")
    /\ UNCHANGED <<killed, main_pc, main_arg, hist, outVars, paused,
                 pause_flag, current_stage, stage_total,
                 stage_remaining, manual_state, current_mode,
                 mode_var, after_queue>>

\* line 575
WorkerExitPaused ==
    /\ worker["x_paused"] > 0
    /\ paused' = FALSE
    /\ hist' = NoPause
    /\ WorkerMove("x_paused", "x_after")
    /\ UNCHANGED <<killed, main_pc, main_arg, outVars, running,
                 pause_flag, current_stage, stage_total,
                 stage_remaining, manual_state, current_mode,
                 mode_var, after_queue>>

\* line 576: self.after(0, self._on_stage_complete); the queue entry
\* remembers (history) the stage whose countdown ended
WorkerExitAfter ==
    /\ worker["x_after"] > 0
    /\ Len(after_queue) < MaxPending
    /\ after_queue' = Append(after_queue, current_stage)
    /\ WorkerEnd("x_after")
    /\ UNCHANGED <<killed, main_pc, main_arg, hist, outVars, running, paused,
                 pause_flag, current_stage, stage_total,
                 stage_remaining, manual_state, current_mode,
                 mode_var>>

StageWorker ==
    \/ WorkerLoop \/ WorkerCheckKill \/ WorkerCheckPause
    \/ WorkerPauseRunning \/ WorkerPausePaused \/ WorkerPauseFlag
    \/ \E dt \in DtChoices(stage_remaining) : WorkerTick(dt)
    \/ WorkerExitRunning \/ WorkerExitPaused \/ WorkerExitAfter

(***************************************************************************)
(* Deferred callback: _on_stage_complete (586-631), on the main thread     *)
(***************************************************************************)
\* self.manual_state after the callback has read stage (602, 611, 625)
CompletedManualState(stage) ==
    CASE stage = "foam" -> "foam_done"
      [] stage = "inflate" -> "inflate_done"
      [] stage = "stabilize" -> "manual_done"
      [] OTHER -> manual_state

\* a completion callback that never looks at the killed flag
CompleteIgnoredNever == FALSE

\* `if self.killed: return` of _on_stage_complete (lines 587-588)
CompleteIgnored == killed

\* lines 587-589, and the branch taken on `stage` (594, 601, 610, 624);
\* manual_state is a field only the main thread uses
OnStageCompleteBegin ==
    /\ main_pc = "ready"
    /\ after_queue # <<>>
    /\ ~CompleteIgnored /\ current_stage = "inflate"
          => AliveWorkers < MaxWorkers
    /\ after_queue' = Tail(after_queue)
    /\ IF CompleteIgnored \/ current_stage = "none"
         THEN UNCHANGED <<main_pc, main_arg, manual_state>>
         ELSE /\ manual_state' = CompletedManualState(current_stage)
              /\ main_pc' = IF current_stage = "inflate" THEN "ns_stage"
                            ELSE "c_none"
              /\ main_arg' = IF current_stage = "inflate" THEN "stabilize"
                             ELSE "none"
    /\ UNCHANGED <<killed, hist, outVars, running, paused, pause_flag,
                 current_stage, stage_total, stage_remaining,
                 current_mode, mode_var, worker>>

\* lines 597 / 603 / 626: self.current_stage = None
OnStageCompleteClear ==
    /\ main_pc = "c_none"
    /\ current_stage' = "none"
    /\ main_pc' = "ready"
    /\ UNCHANGED <<killed, main_arg, hist, outVars, running, paused,
                 pause_flag, stage_total, stage_remaining,
                 manual_state, current_mode, mode_var, worker,
                 after_queue>>

OnStageComplete == OnStageCompleteBegin \/ OnStageCompleteClear

(***************************************************************************)
(* The stage sequencer alone: START, STOP, mode selector, KILL, the        *)
(* countdown threads and the deferred callback                             *)
(***************************************************************************)
NextStage ==
    \/ DoKill \/ StartButton \/ StopPressed \/ OnModeChange
    \/ StageWorker \/ OnStageComplete

SpecStage == Init /\ [][NextStage]_vars

(***************************************************************************)
(* Properties of the output controller                                     *)
(***************************************************************************)
\* _do_kill has run: killed is set and the handler has returned
KillDone == killed /\ ~InKill

\* the mode reached from idle by n presses of OUTPUT
ModeAfter(n) ==
    IF n = 0 THEN "idle" ELSE IF n % 2 = 1 THEN "steady_high" ELSE "cycle"

\* C1: after kill() has run the actuator is LOW, in every later state,
\* whatever the cycle thread and the later commands do.
C1_LowAfterKill == KillDone => led = FALSE

\* C2: without a kill, when the handler of the n-th OUTPUT press has
\* returned the mode is steady_high for odd n and cycle for even n (idle
\* for n = 0), and a mode that has left idle never is idle again.
C2_ToggleSequence ==
    /\ [](~killed /\ ~InOutput => gpio_mode = ModeAfter(toggles))
    /\ [][gpio_mode # "idle" => gpio_mode' # "idle"]_vars

C2_Witness ==
    ~killed /\ main_pc = "ready" /\ toggles = 4 /\ gpio_mode = "cycle"

\* C4: while not killed and between two OUTPUT presses, the actuator is LOW
\* in mode idle and HIGH in mode steady_high.
C4_ActuatorMatchesMode ==
    ~killed /\ ~InOutput /\ ~InClose /\ ~Exited =>
        /\ gpio_mode = "idle" => led = FALSE
        /\ gpio_mode = "steady_high" => led = TRUE

\* the cycle thread of t has not yet made its first actuator write, or
\* has written HIGH after a full initial LOW period
DwellServed(t) ==
    /\ t # 0 /\ CycleAlive(t)
    /\ \/ cyc[t].pc = "init_off"
       \/ cyc[t].last = "HIGH" /\ cyc[t].dwell = GPIO_LOW_SEC * PollsPerSec

\* C5: a cycle thread's first actuator write is LOW, and it is about to
\* write or has written HIGH only after GPIO_LOW_SEC / 0.1 polls of its
\* initial LOW period, each of which found no stop request, no kill and
\* the mode still 'cycle'; and in mode 'cycle', between two OUTPUT presses
\* and without a kill, the actuator is HIGH only if the current cycle
\* thread has yet to begin its LOW period or has completed it.
C5_InitialLowDwell ==
    /\ \A t \in ThreadIds :
        /\ cyc[t].pc \in {"il_chk", "il_mode", "il_after", "il_abort"}
              => cyc[t].last = "LOW"
        /\ cyc[t].pc = "high_on" \/ cyc[t].last = "HIGH"
              => cyc[t].dwell = GPIO_LOW_SEC * PollsPerSec
    /\ ~killed /\ ~InOutput /\ gpio_mode = "cycle" /\ led = TRUE
          => DwellServed(gpio_cycle_thread)

C14_OneCycleThread == Cardinality(AliveCycleThreads) <= 1

\* the fourth press has started a second cycle thread, the first one, stopped
\* by the third press, having ended
C14_Witness ==
    /\ toggles = 4 /\ gpio_mode = "cycle" /\ main_pc = "ready"
    /\ CycleThreadRunning /\ ~gpio_cycle_stop_evt
    /\ Cardinality(AliveCycleThreads) = 1

\* C15: in mode 'cycle', with no handler running and no kill, the current
\* cycle thread is alive and the stop event is clear.
C15_CyclingHasTask ==
    ~killed /\ main_pc = "ready" /\ gpio_mode = "cycle"
        => CycleThreadRunning /\ ~gpio_cycle_stop_evt

\* C11: a kill() called when killed is already set returns at once: the
\* step leaves killed, running, paused, pause_flag, gpio_mode, the stop
\* event and the actuator unchanged, and no step of the handler's body is
\* taken on its behalf.
C11_KillIdempotent ==
    [][(killed /\ kills' = kills + 1) \/ (kills >= 2 /\ InKill)
       => UNCHANGED <<killed, running, paused, pause_flag, gpio_mode,
                      gpio_cycle_stop_evt, led, main_pc>>]_vars

\* a second kill has found the actuator HIGH and left it so
C11_Witness == kills = 2 /\ killed /\ led = TRUE

\* C12: when the process has terminated after a window close, the
\* actuator is LOW.
C12_LowAtExit == Exited => led = FALSE

\* the actuator writes of a cycle thread (lines 367, 382, 397, 411, 427)
CycleActuatorWrite(t) ==
    \/ CycleInitOff(t) \/ CycleInitAbort(t) \/ CycleHighOn(t)
    \/ CycleLowOff(t) \/ CycleExitOff(t)

\* the actuator writes of kill() (line 289 through _stop_gpio_cycle, 291)
KillActuatorWrite == KillOff1 \/ KillOff2

\* C20 (kill): kill() writes the actuator while it holds the mode lock.
C20_KillLocked == [][KillActuatorWrite => gpio_mode_lock = "main"]_vars

\* C20 (cycle thread): a cycle thread writes the actuator only while no
\* other party holds the mode lock, that is never inside a mode transition
\* of the toggle handler.
C20_CycleOutsideTransition ==
    [][(\E t \in ThreadIds : CycleActuatorWrite(t))
       => gpio_mode_lock # "main"]_vars

\* C20: both parts together
C20_WritesUnderLock == C20_KillLocked /\ C20_CycleOutsideTransition

(***************************************************************************)
(* The output controller under fair scheduling: a cycle thread that can    *)
(* take a step eventually takes one, and a handler that has begun runs to  *)
(* its end (and so releases the lock).                                     *)
(***************************************************************************)
\* the main thread goes on with the handler it is in
OutputHandlerStep == main_pc # "ready" /\ NextOutput

SpecOutputFair ==
    SpecOutput /\ WF_vars(CycleWorker) /\ WF_vars(OutputHandlerStep)

\* positions of a cycle thread that has passed the stop test of a poll
\* round (lines 374, 403, 419) and goes on to the mode test and the sleep
PollPcs == {"il_mode", "hl_mode", "ll_mode"}

\* C18: once the stop event is set or killed is set, no cycle thread passes
\* a stop test into another poll round (a thread sleeps at most once more),
\* and every cycle thread that is alive then ends, unless the process
\* terminates first.
C18_StopWithinOnePoll ==
    /\ [][gpio_cycle_stop_evt \/ killed
          => \A t \in ThreadIds :
                cyc'[t].pc \in PollPcs => cyc'[t].pc = cyc[t].pc]_vars
    /\ \A t \in ThreadIds :
          ((gpio_cycle_stop_evt \/ killed) /\ CycleAlive(t))
              ~> (~CycleAlive(t) \/ Exited)

\* a thread has left its HIGH phase in mid-phase on a stop request
C18_Witness ==
    \E t \in ThreadIds :
        /\ cyc[t].pc = "h_after" /\ cyc[t].i > 0 /\ cyc[t].i < HighPolls
        /\ gpio_cycle_stop_evt \/ killed

(***************************************************************************)
(* The commands alone: every button handler, the countdown threads and the *)
(* deferred callback.  The cycle thread is left out: it writes the         *)
(* actuator only, never gpio_mode, the run state or the set of workers.    *)
(***************************************************************************)
NextCommands == NextStage \/ OutputButton

SpecCommands == Init /\ [][NextCommands]_vars

(***************************************************************************)
(* Properties of the stage sequencer                                       *)
(***************************************************************************)
\* C3: once killed is set it stays set, and no later step (OUTPUT, START,
\* STOP, mode selector, deferred completion callback) changes gpio_mode,
\* adds a countdown worker or leaves running set.
C3_KilledAbsorbing ==
    [][killed => /\ killed'
                 /\ gpio_mode' = gpio_mode
                 /\ AliveWorkers' <= AliveWorkers
                 /\ ~running']_vars

\* OUTPUT was pressed after the kill and has left the mode idle
C3_Witness ==
    KillDone /\ main_pc = "ready" /\ toggles > 0 /\ gpio_mode = "idle"

\* C7: while START resumes a paused stage, the stage is the one that was
\* paused, its total is that stage's duration and its remaining time is the
\* value it had when the worker set paused.
C7_ResumeKeepsStage ==
    main_arg = "resume" =>
        /\ current_stage = hist.pause_stage
        /\ stage_total = StageDuration(current_stage)
        /\ stage_remaining = hist.pause_rem

\* C8: without a kill, the completion callback of a countdown that ended
\* in stage inflate sets manual_state to inflate_done and goes on to start
\* stage stabilize, whose worker is started with total = remaining = 1200.
C8_InflateChains ==
    /\ [][/\ main_pc = "ready" /\ ~killed
          /\ after_queue # <<>> /\ Head(after_queue) = "inflate"
          /\ after_queue' = Tail(after_queue)
          => manual_state' = "inflate_done" /\ main_arg' = "stabilize"]_vars
    /\ [](main_arg = "stabilize" /\ main_pc = "sw_thread"
          => /\ current_stage = "stabilize" /\ running
             /\ stage_total = MANUAL_STABILIZE
             /\ stage_remaining = MANUAL_STABILIZE)

\* a stage is in flight: running or paused, or a countdown thread is alive,
\* or a completion callback is pending
StageInFlight ==
    running \/ paused \/ AliveWorkers > 0 \/ after_queue # <<>>

\* C9: without a kill, a mode selection made while a stage is in flight
\* leaves the active mode, the current stage, its total, its remaining
\* time and manual_state unchanged, and the selector shows the active mode.
C9_ModeChangeRejected ==
    [][/\ ~killed /\ StageInFlight
       /\ \E value \in {"Automatic", "Manual"} : ModeChange(value)
       => /\ UNCHANGED <<current_mode, current_stage, stage_total,
                        stage_remaining, manual_state>>
          /\ mode_var' = current_mode]_vars

\* C10: while the current stage stays auto and its countdown has not
\* reached 0, stage_remaining never increases.
C10_AutoNeverIncreases ==
    [][/\ current_stage = "auto" /\ current_stage' = "auto"
       /\ stage_remaining > 0
       => stage_remaining' <= stage_remaining]_vars

\* C13: at most one countdown thread is alive, and a countdown thread is
\* started only when none is alive.
C13_OneWorker ==
    /\ [](AliveWorkers <= 1)
    /\ [][AliveWorkers' > AliveWorkers => AliveWorkers = 0]_vars

\* countdown threads that have left the loop of line 534 with the countdown
\* at 0 and are completing the stage (lines 574-576)
CompletingWorkers ==
    worker["x_running"] + worker["x_paused"] + worker["x_after"]

\* C16: without a kill, while a pause request accepted by STOP is pending
\* (pause_flag set) no countdown thread completes the stage.
C16_PauseObserved == ~killed /\ pause_flag => CompletingWorkers = 0

\* the forward steps of manual_state
ManualForward ==
    {<<"idle", "foam_done">>, <<"foam_done", "inflate_done">>,
     <<"inflate_done", "manual_done">>}

\* the stage whose completion leads to manual_state m
StageBefore(m) ==
    CASE m = "foam_done" -> "foam"
      [] m = "inflate_done" -> "inflate"
      [] m = "manual_done" -> "stabilize"
      [] OTHER -> "none"

\* C19 (order): manual_state changes only by a forward step or, back to
\* idle, by an accepted mode selection.
C19_Order ==
    [][manual_state' # manual_state
       => \/ <<manual_state, manual_state'>> \in ManualForward
          \/ /\ manual_state' = "idle" /\ ~ModeChangeRejected
             /\ \E value \in {"Automatic", "Manual"} : ModeChange(value)]_vars

\* C19 (at zero): a forward step is taken with the countdown of the
\* corresponding stage at 0.
C19_AtZero ==
    [][manual_state' # manual_state /\ manual_state' # "idle"
       => current_stage = StageBefore(manual_state')
          /\ stage_remaining = 0]_vars

\* C19 (after Foam): once Foam has completed and its callback has returned,
\* the stage is None and no countdown thread runs before the next START,
\* which starts Inflate with total = remaining = MANUAL_INFLATE.
C19_AfterFoam ==
    /\ [](manual_state = "foam_done" /\ main_pc = "ready"
          /\ current_stage = "none" => AliveWorkers = 0 /\ ~running)
    /\ [][manual_state = "foam_done" /\ manual_state' = "foam_done"
          /\ current_stage = "none" /\ current_stage' # "none"
          => /\ current_stage' = "inflate"
             /\ stage_total' = MANUAL_INFLATE
             /\ stage_remaining' = MANUAL_INFLATE]_vars

\* C19 (after manual_done): START in Manual mode starts no stage.
C19_AfterDone ==
    [][manual_state = "manual_done" /\ mode_var = "Manual" /\ StartPressed
       => main_pc' # "ns_stage"]_vars

\* C19: the four parts together
C19_ManualProgress ==
    C19_Order /\ C19_AtZero /\ C19_AfterFoam /\ C19_AfterDone

(***************************************************************************)
(* The stage sequencer under fair scheduling: a countdown thread that can  *)
(* take a step eventually takes one, a handler that has begun runs to its  *)
(* end, and the Tk main loop eventually runs a deferred callback however   *)
(* many commands arrive.                                                   *)
(***************************************************************************)
\* the main thread goes on with the handler it is in
HandlerStep == main_pc # "ready" /\ NextStage

SpecStageFair ==
    /\ SpecStage
    /\ WF_vars(StageWorker)
    /\ WF_vars(HandlerStep)
    /\ SF_vars(OnStageComplete)

\* C17: once killed is set, no countdown thread passes the kill check of
\* line 535 into another round (a thread decrements stage_remaining at most
\* once more), every countdown thread ends, running stays False, and a
\* completion callback changes neither manual_state nor the stage and
\* starts no thread.
C17_KillStopsWorker ==
    /\ [][killed => worker'["chk_pause"] <= worker["chk_pause"]]_vars
    /\ [](killed => ~running)
    /\ [][killed /\ after_queue # <<>> /\ after_queue' = Tail(after_queue)
          => UNCHANGED <<manual_state, current_stage, stage_total,
                         stage_remaining, main_pc, worker>>]_vars
    /\ (killed ~> AliveWorkers = 0)

\* kill has run while the callback of a finished Inflate countdown is pending
C17_Witness ==
    KillDone /\ after_queue # <<>> /\ Head(after_queue) = "inflate"

\* C21: once kill() has run, the current stage is None.
C21_StageNoneAfterKill == KillDone => current_stage = "none"

\* C22 (set): pause_flag is set only while running is True and a countdown
\* thread is alive.
C22_SetWhileRunning ==
    [][~pause_flag /\ pause_flag' => running /\ AliveWorkers > 0]_vars

\* C22 (outlive): without a kill, a pending pause request has a stage and a
\* live countdown thread of that stage to observe it.
C22_NotStale ==
    ~killed /\ pause_flag => AliveWorkers > 0 /\ current_stage # "none"

\* C22 (new stage): a countdown thread is started with no pause request
\* pending, so the stage it counts pauses only on a later STOP.
C22_StartsClear ==
    [][AliveWorkers' > AliveWorkers => ~pause_flag']_vars

\* C22: the three parts together
C22_PauseWithinStage ==
    C22_SetWhileRunning /\ []C22_NotStale /\ C22_StartsClear

\* C23: while running is True and a countdown thread is alive, the current
\* stage is not None, so that STOP is accepted (StopAccepted).
C23_RunningHasStage ==
    running /\ AliveWorkers > 0 => current_stage # "none" /\ StopAccepted

(***************************************************************************)
(* The whole program                                                       *)
(***************************************************************************)
Next == NextOutput \/ NextStage

Spec == Init /\ [][Next]_vars

====
